---- MODULE Spec2Model ----
(***************************************************************************)
(* Provisioning scripts of the bff repository (scripts/provision_*.py and  *)
(* scripts/generate_synthetic_data.py) as one state machine.               *)
(*                                                                         *)
(* A run of a script is a sequence of steps; every step is the code        *)
(* between two HTTP calls, the call included, with the remote's answer     *)
(* drawn from a small set.  The file system (fs) survives a run, so that   *)
(* a later run, of the same or of another script, reads what an earlier    *)
(* run wrote.                                                              *)
(***************************************************************************)
EXTENDS Integers, Sequences, FiniteSets, TLC

VARIABLES
  script,    \* the script of the current (or last) run, "none" before any
  pc,        \* position in the script; "done" when the process has exited
  args,      \* command line and environment of the current run
  loc,       \* local variables of the current run
  fs,        \* files on disk
  fs0,       \* the files as they were when the current run started
  calls,     \* HTTP requests issued by the current run, in order; the ticks of
             \* a poll loop are counted by the loop's own counter, loc.attempt
  exitCode,  \* exit code of the run once pc = "done", NoExit before
  runs       \* number of runs that may still be started

vars == <<script, pc, args, loc, fs, fs0, calls, exitCode, runs>>

----------------------------------------------------------------------------
(* Bounds of the model *)

MaxRuns == 2
MaxRetries == 2

----------------------------------------------------------------------------
(* Values *)

NoFile == "NoFile"
NoExit == 0 - 1
None == "None"
Exc == "exc"              \* the token request raised (network error, timeout)

Token == "tok"            \* the access_token of a token response
RealWsId == "ws-1"        \* the id the remote assigns to the workspace
SynthId == "local"        \* synth_id(): "local-<sanitized>-<timestamp>"

Codes == {200, 201, 202, 401, 404, 409, 503}
Bodies == {"id", "noid", "nojson"}
\* requests raised (network error, timeout): there is no response
Raise == [code |-> 0, body |-> "exc"]
Responses == [code : Codes, body : Bodies] \cup {Raise}
Raised(resp) == resp.code = 0

\* responses of which the code reads the status only
StatusOnly == {r \in Responses : r.body \in {"noid", "exc"}}

\* the calls of the run to one API
CallsTo(api) == SelectSeq(calls, LAMBDA c : c.api = api)

Is2xx(c) == 200 <= c /\ c < 300

Call(api, ws, name, tok) == [api |-> api, ws |-> ws, name |-> name, tok |-> tok]

\* sanitized names of the workspaces, and the resource kinds of write_state
SNames == {<<"ctl">>, <<"a">>, <<"b">>}
Kinds == {<<"lakehouse", "metrics">>, <<"lakehouse">>, <<"warehouse">>}

\* write_state, line 52: f"{resource_kind}-{sanitized_name}.json"
FileName(resource_kind, sanitized_name) == resource_kind \o sanitized_name
StateFileNames == {FileName(k, n) : k \in Kinds, n \in SNames}
\* what create_lakehouse / create_warehouse return: a dict or a list, what it
\* holds, and the "status" entry of the raw-text dict of create_warehouse
Value(shape, content, status) == [shape |-> shape, content |-> content, status |-> status]
NoValue == Value("none", None, 0)

NoStateFile ==
  [exists |-> FALSE, workspace_id |-> None, resource_type |-> <<>>,
   sanitized_name |-> <<>>, api_response |-> NoValue]

\* an entry of the merged summary: a workspace artifact
WsEntry(wid, sname) == [workspace_id |-> wid, sanitized_name |-> sname]
NoSummary == [exists |-> FALSE, controller |-> WsEntry(None, <<"ctl">>), workspaces |-> <<>>]

\* a job instance body: not JSON (or not a dict), or a dict with these fields
NoInstance == [json |-> FALSE, status |-> None, state |-> None]
NoRunResult == [exists |-> FALSE, status_code |-> 0, location |-> FALSE, instance |-> NoInstance]

NoAdmin == [status |-> "absent", attempts |-> 0, status_code |-> 0]

\* no JSON artifact on disk (load_json returns None)
NoArtifact ==
  [exists |-> FALSE, workspace_id |-> None, created |-> FALSE, note |-> "",
   status_code |-> 0, admin |-> NoAdmin]

EmptyFs ==
  [ artifact   |-> NoArtifact, \* --output JSON of provision_workspace
    wsTxt      |-> NoFile,     \* <output>_workspace_id.txt
    stateWsTxt |-> NoFile,     \* .state/workspace_id.txt
    lakehouseIds |-> [exists |-> FALSE, ids |-> <<>>],  \* .state/lakehouse_ids.txt
    warehouseId  |-> NoFile,   \* .state/warehouse_id.txt
    notebooksCreated |-> [exists |-> FALSE, results |-> <<>>],  \* .state/notebooks_created.json
    runResult  |-> NoRunResult, \* .state/notebook_run_result.json
    executed   |-> FALSE,      \* .state/generate_output.executed.ipynb exists
    summary    |-> NoSummary,  \* .state/bff-workspaces-summary.json
    state      |-> [f \in StateFileNames |-> NoStateFile] ]  \* <kind>-<sanitized_name>.json

NoLocals == [none |-> TRUE]

----------------------------------------------------------------------------
(* scripts/provision_workspace.py *)

TokenResponses == {"ok", "noAccessToken", "non200", Exc}

\* get_access_token: the token, or None when it raises
get_access_token(resp) == IF resp = "ok" THEN Token ELSE None

\* write_json without write_workspace_id_txt, then return 0
PW_FinishArtifactOnly(payload) ==
  /\ fs' = [fs EXCEPT !.artifact = payload]
  /\ pc' = "done"
  /\ exitCode' = 0

\* write_json + write_workspace_id_txt, then return 0
PW_Finish(payload) ==
  /\ fs' = [fs EXCEPT !.artifact = payload,
                      !.wsTxt = payload.workspace_id,
                      !.stateWsTxt = payload.workspace_id]
  /\ pc' = "done"
  /\ exitCode' = 0

Fallback(note) ==
  [exists |-> TRUE, workspace_id |-> SynthId, created |-> FALSE, note |-> note,
   status_code |-> 0, admin |-> NoAdmin]

\* the existing artifact carries workspace_id / workspaceId / id
ExistingId(f) == IF f.artifact.exists THEN f.artifact.workspace_id ELSE None

\* the credentials looked at before the dry-run flag
StartBranchCredentialsFirst(force, dryRun, creds, existing_id) ==
  IF ~force /\ existing_id # None THEN "skip"
  ELSE IF ~creds THEN "fallback-synthetic-id-no-credentials"
  ELSE IF dryRun THEN "dry-run synthetic id"
  ELSE "provision"

\* main, lines 214-255: return at once, write a synthetic artifact with this
\* note, or go on to the requests
StartBranch(force, dryRun, creds, existing_id) ==
  IF ~force /\ existing_id # None THEN "skip"
  ELSE IF dryRun THEN "dry-run synthetic id"
  ELSE IF ~creds THEN "fallback-synthetic-id-no-credentials"
  ELSE "provision"

\* main, lines 196-255: arguments, idempotency check, dry run, missing credentials
PW_Start(force, dryRun, creds, adminSet, maxRetries) ==
  /\ pc \in {"idle", "done"}
  /\ runs > 0
  /\ runs' = runs - 1
  /\ script' = "provision_workspace"
  /\ args' = [force |-> force, dryRun |-> dryRun, creds |-> creds,
              adminSet |-> adminSet, maxRetries |-> maxRetries]
  /\ fs0' = fs
  /\ calls' = <<>>
  /\ loc' = [token |-> None, workspace_id |-> None, createCode |-> 0,
             payload |-> NoArtifact, attempts |-> 0,
             assignStatus |-> "not-attempted", assignCode |-> 0]
  /\ LET b == StartBranch(force, dryRun, creds, ExistingId(fs)) IN
       IF b = "skip"
         THEN /\ pc' = "done" /\ exitCode' = 0 /\ fs' = fs
       ELSE IF b = "provision"
         THEN /\ pc' = "pw_token" /\ exitCode' = NoExit /\ fs' = fs
       ELSE PW_Finish(Fallback(b))

\* main, lines 257-267: the token request
PW_Token(resp) ==
  /\ script = "provision_workspace" /\ pc = "pw_token"
  /\ calls' = Append(calls, Call("token", None, None, None))
  /\ LET t == get_access_token(resp) IN
       IF t = None
         THEN /\ PW_Finish(Fallback("fallback-synthetic-id-token-failure"))
              /\ loc' = loc
         ELSE /\ loc' = [loc EXCEPT !.token = t]
              /\ pc' = "pw_create"
              /\ UNCHANGED <<fs, exitCode>>
  /\ UNCHANGED <<script, args, fs0, runs>>

\* main, lines 275-296: the workspace id of a 2xx create response
ParsedWorkspaceId(resp) == IF resp.body = "id" THEN RealWsId ELSE SynthId

CreatedPayload(resp) ==
  [exists |-> TRUE, workspace_id |-> ParsedWorkspaceId(resp), created |-> TRUE,
   note |-> IF resp.body = "id" THEN "api_response" ELSE "raw_response",
   status_code |-> resp.code, admin |-> NoAdmin]

AssignMeta(status, attempts, code) ==
  [status |-> status, attempts |-> attempts, status_code |-> code]

\* create_fabric_workspace succeeded: it returns on 2xx and raises otherwise
CreateSucceeded(resp) == ~Raised(resp) /\ Is2xx(resp.code)

\* main, lines 269-296 and 311-326: create the workspace
PW_Create(resp) ==
  /\ script = "provision_workspace" /\ pc = "pw_create"
  /\ calls' = Append(calls, Call("createWorkspace", None, "workspace", loc.token))
  /\ IF CreateSucceeded(resp)
       THEN LET p == CreatedPayload(resp) IN
            /\ loc' = [loc EXCEPT !.workspace_id = p.workspace_id,
                                  !.createCode = resp.code, !.payload = p]
            /\ IF args.adminSet
                 THEN /\ pc' = "pw_assign" /\ UNCHANGED <<fs, exitCode>>
                 ELSE PW_Finish([p EXCEPT !.admin = AssignMeta("skipped", 0, 0)])
       ELSE /\ loc' = [loc EXCEPT !.createCode = resp.code]
            /\ PW_Finish(Fallback("fallback-synthetic-id-api-failure"))
  /\ UNCHANGED <<script, args, fs0, runs>>

\* write_json, lines 150-151: open(path, "w") has emptied the file and
\* json.dump has written a part of the text; load_json reads it as None
PartialArtifact ==
  [exists |-> TRUE, workspace_id |-> None, created |-> FALSE, note |-> "partial",
   status_code |-> 0, admin |-> NoAdmin]

\* write_json, lines 146-152, stopped by a kill: before open() the file is as
\* it was, between open() and the end of json.dump it is partial, after the
\* with block it is complete (and the id files are not written yet)
write_json_killed(old, payload, point) ==
  IF point = "before" THEN old
  ELSE IF point = "during" THEN PartialArtifact
  ELSE payload

KillPoints == {"before", "during", "after"}

\* main, lines 275-326: the create request answered, and the process killed
\* (SIGKILL, exit status 137) in the write_json that follows
PW_CreateKilled(resp, point) ==
  /\ script = "provision_workspace" /\ pc = "pw_create"
  /\ ~(CreateSucceeded(resp) /\ args.adminSet)
  /\ calls' = Append(calls, Call("createWorkspace", None, "workspace", loc.token))
  /\ LET p == IF CreateSucceeded(resp)
                THEN [CreatedPayload(resp) EXCEPT !.admin = AssignMeta("skipped", 0, 0)]
                ELSE Fallback("fallback-synthetic-id-api-failure")
     IN
     /\ loc' = [loc EXCEPT !.createCode = resp.code]
     /\ fs' = [fs EXCEPT !.artifact = write_json_killed(fs.artifact, p, point)]
  /\ pc' = "done"
  /\ exitCode' = 137
  /\ UNCHANGED <<script, args, fs0, runs>>

\* the loop condition with the bound included: one attempt more than max_retries
AssignLoopGuardInclusive(attempts, maxRetries) == attempts <= maxRetries

\* assign_admin_role, line 102: the loop condition
AssignLoopGuard(attempts, maxRetries) == attempts < maxRetries

\* assign_admin_role without line 141: a loop that ran out returns the status
\* its last pass left in result
PW_AssignReturnLastStatus(status, attempts, code) ==
  LET st == IF status = "failed" THEN loc.assignStatus ELSE status IN
  /\ loc' = [loc EXCEPT !.attempts = attempts,
                        !.assignStatus = st, !.assignCode = code]
  /\ PW_Finish([loc.payload EXCEPT !.admin = AssignMeta(st, attempts, code)])

\* assign_admin_role returned: main lines 302-318
PW_AssignReturn(status, attempts, code) ==
  /\ loc' = [loc EXCEPT !.attempts = attempts,
                        !.assignStatus = status, !.assignCode = code]
  /\ PW_Finish([loc.payload EXCEPT !.admin = AssignMeta(status, attempts, code)])

\* the test with 409 left out: a conflict is tried again
NonRetryableButConflict(code) == 400 <= code /\ code < 500 /\ code # 409

\* assign_admin_role, line 123: a client error, which ends the loop
NonRetryable(code) == 400 <= code /\ code < 500

\* assign_admin_role, lines 102-139: one pass of the retry loop
PW_AssignAttempt(resp) ==
  /\ script = "provision_workspace" /\ pc = "pw_assign"
  /\ AssignLoopGuard(loc.attempts, args.maxRetries)
  /\ calls' = Append(calls, Call("assignRole", loc.workspace_id, "Admin", loc.token))
  /\ LET n == loc.attempts + 1 IN
       IF Raised(resp)
         THEN /\ loc' = [loc EXCEPT !.attempts = n,
                                    !.assignStatus = "retrying-exception"]
              /\ UNCHANGED <<pc, fs, exitCode>>
         ELSE IF resp.code = 201
           THEN PW_AssignReturn("succeeded", n, resp.code)
           ELSE IF NonRetryable(resp.code)
             THEN PW_AssignReturn("failed-non-retryable", n, resp.code)
             ELSE /\ loc' = [loc EXCEPT !.attempts = n,
                                        !.assignStatus = "retrying",
                                        !.assignCode = resp.code]
                  /\ UNCHANGED <<pc, fs, exitCode>>
  /\ UNCHANGED <<script, args, fs0, runs>>

\* assign_admin_role, lines 141-143: the loop ran out
PW_AssignExhausted ==
  /\ script = "provision_workspace" /\ pc = "pw_assign"
  /\ ~AssignLoopGuard(loc.attempts, args.maxRetries)
  /\ calls' = calls
  /\ PW_AssignReturn("failed", loc.attempts, loc.assignCode)
  /\ UNCHANGED <<script, args, fs0, runs>>


----------------------------------------------------------------------------
(* scripts/provision_lakehouses_warehouse.py *)

lakehouse_names == <<"BenchmarkLakehouse", "DataSourceLakehouse">>
warehouse_name == "BenchmarkWarehouse"
max_attempts == 12

\* the id the remote gives (or has given) to the item of that display name
IdOf(name) ==
  CASE name = "BenchmarkLakehouse" -> "id-BenchmarkLakehouse"
    [] name = "DataSourceLakehouse" -> "id-DataSourceLakehouse"
    [] name = "BenchmarkWarehouse" -> "id-BenchmarkWarehouse"
    [] name = "MetricsLakehouse" -> "id-MetricsLakehouse"
    [] OTHER -> "id-other"

\* a listing response: does its "value" hold an entry of the display name
Listings == [code : {200, 503}, body : {"match", "nomatch"}] \cup {Raise}

\* no listing was requested yet
NoListing == [code |-> 0, body |-> "none"]

\* the status test against 201, the code of a creation
ListingMatchesCreated(resp) == resp.code = 201 /\ resp.body = "match"

\* provision_lakehouses_warehouse.py lines 79-85, provision_notebooks.py lines
\* 120-124: the listing was answered 200 and an entry of it has the display name
ListingMatches(resp) == resp.code = 200 /\ resp.body = "match"

\* sys.exit(code), or an uncaught exception (exit code 1)
Exit(code) ==
  /\ pc' = "done"
  /\ exitCode' = code

\* lines 1-13: read .state/workspace_id.txt
LW1_Start ==
  /\ pc \in {"idle", "done"}
  /\ runs > 0
  /\ runs' = runs - 1
  /\ script' = "provision_lakehouses_warehouse"
  /\ args' = NoLocals
  /\ fs0' = fs
  /\ calls' = <<>>
  /\ fs' = fs
  /\ loc' = [workspace_id |-> fs.stateWsTxt, token |-> None, i |-> 1,
             lakehouse_ids |-> <<>>, warehouse_id |-> None, attempt |-> 0,
             conflicts |-> {}, lastListing |-> NoListing, response |-> NoListing]
  /\ IF fs.stateWsTxt = NoFile
       THEN Exit(1)
       ELSE /\ pc' = "lw1_token" /\ exitCode' = NoExit

\* lines 15-26: the token request; raise_for_status and ["access_token"] raise
LW1_Token(resp) ==
  /\ script = "provision_lakehouses_warehouse" /\ pc = "lw1_token"
  /\ calls' = Append(calls, Call("token", None, None, None))
  /\ IF resp = "ok"
       THEN /\ loc' = [loc EXCEPT !.token = Token]
            /\ pc' = "lw1_lakehouse"
            /\ exitCode' = exitCode
       ELSE /\ loc' = loc
            /\ Exit(1)
  /\ UNCHANGED <<script, args, fs, fs0, runs>>

\* lines 99-112: save the ids to the state files
LW1_Save(lakehouse_ids, warehouse_id) ==
  /\ fs' = [fs EXCEPT !.lakehouseIds = [exists |-> TRUE, ids |-> lakehouse_ids],
                      !.warehouseId = IF warehouse_id # None THEN warehouse_id ELSE @]
  /\ Exit(IF warehouse_id # None THEN 0 ELSE 1)

\* lines 38-53: one pass of the lakehouse loop
LW1_Lakehouse(resp) ==
  /\ script = "provision_lakehouses_warehouse" /\ pc = "lw1_lakehouse"
  /\ LET name == lakehouse_names[loc.i]
         last == loc.i = Len(lakehouse_names)
     IN
     /\ calls' = Append(calls, Call("createLakehouse", loc.workspace_id, name, loc.token))
     /\ IF resp.code = 201 /\ resp.body = "id"
          THEN /\ loc' = [loc EXCEPT !.response = resp, !.lakehouse_ids = Append(@, IdOf(name)),
                                     !.i = @ + 1]
               /\ pc' = IF last THEN "lw1_warehouse" ELSE pc
               /\ exitCode' = exitCode
          ELSE IF resp.code = 409
            THEN /\ loc' = [loc EXCEPT !.response = resp, !.i = @ + 1, !.conflicts = @ \cup {name}]
                 /\ pc' = IF last THEN "lw1_warehouse" ELSE pc
                 /\ exitCode' = exitCode
            ELSE /\ loc' = [loc EXCEPT !.response = resp]
                 /\ Exit(1)
  /\ UNCHANGED <<script, args, fs, fs0, runs>>

\* lines 55-70 and 92-112: create the warehouse
LW1_Warehouse(resp) ==
  /\ script = "provision_lakehouses_warehouse" /\ pc = "lw1_warehouse"
  /\ calls' = Append(calls, Call("createWarehouse", loc.workspace_id, warehouse_name, loc.token))
  /\ IF resp.code = 201 /\ resp.body = "id"
       THEN /\ loc' = [loc EXCEPT !.response = resp, !.warehouse_id = IdOf(warehouse_name)]
            /\ LW1_Save(loc.lakehouse_ids, IdOf(warehouse_name))
       ELSE IF resp.code = 202
         THEN /\ loc' = [loc EXCEPT !.response = resp]
              /\ pc' = "lw1_poll"
              /\ UNCHANGED <<fs, exitCode>>
         ELSE IF resp.code = 409
           THEN /\ loc' = [loc EXCEPT !.response = resp, !.conflicts = @ \cup {warehouse_name}]
                /\ LW1_Save(loc.lakehouse_ids, None)
           ELSE /\ loc' = [loc EXCEPT !.response = resp]
                /\ fs' = fs
                /\ Exit(1)
  /\ UNCHANGED <<script, args, fs0, runs>>

\* the range with its end included: one tick more than max_attempts
LW1_PollGuardInclusive(attempt) == attempt <= max_attempts

\* line 76: for attempt in range(max_attempts)
LW1_PollGuard(attempt) == attempt < max_attempts

\* lines 76-91: one tick of the warehouse poll
LW1_Poll(resp) ==
  /\ script = "provision_lakehouses_warehouse" /\ pc = "lw1_poll"
  /\ LW1_PollGuard(loc.attempt)
  /\ calls' = calls
  /\ IF Raised(resp)
       THEN /\ loc' = [loc EXCEPT !.attempt = @ + 1, !.lastListing = resp]
            /\ fs' = fs
            /\ Exit(1)
       ELSE IF ListingMatches(resp)
         THEN /\ loc' = [loc EXCEPT !.attempt = @ + 1, !.lastListing = resp,
                                    !.warehouse_id = IdOf(warehouse_name)]
              /\ LW1_Save(loc.lakehouse_ids, IdOf(warehouse_name))
         ELSE /\ loc' = [loc EXCEPT !.attempt = @ + 1, !.lastListing = resp]
              /\ IF LW1_PollGuard(loc.attempt + 1)
                   THEN UNCHANGED <<pc, fs, exitCode>>
                   ELSE /\ fs' = fs
                        /\ Exit(1)
  /\ UNCHANGED <<script, args, fs0, runs>>


----------------------------------------------------------------------------
(* scripts/provision_lakehouses_warehouses.py *)

\* die(msg, code = 1)
die == Exit(1)

\* get_token_via_client_credentials, line 47: r.json().get("access_token")
TokenOf(resp) == IF resp = "ok" THEN Token ELSE None

\* write_state that writes nothing
write_stateSkipped(f, resource_kind, sanitized_name, workspace_id, resp) == f

\* write_state, lines 49-63
write_state(f, resource_kind, sanitized_name, workspace_id, resp) ==
  [f EXCEPT !.state[FileName(resource_kind, sanitized_name)] =
     [exists |-> TRUE, workspace_id |-> workspace_id,
      resource_type |-> resource_kind, sanitized_name |-> sanitized_name,
      api_response |-> resp]]

\* create_lakehouse, lines 75-78: the value returned for a 2xx response
Returned(resp) ==
  IF resp.body = "nojson" THEN Value("dict", "raw_text", 0)
  ELSE Value("dict", resp.body, 0)

\* the bodies of a warehouse response: also a JSON array and JSON null
WarehouseResponses == [code : Codes, body : Bodies \cup {"array", "null"}] \cup {Raise}

\* create_warehouse with the 202 branch of line 111 tested before the 2xx
\* branch of line 101
create_warehouseAcceptedFirst(resp) ==
  IF resp.code = 202
    THEN [outcome |-> "poll", value |-> Value("dict", "raw_text", 202)]
  ELSE IF Is2xx(resp.code)
    THEN [outcome |-> "return", value |-> Value("dict", resp.body, 0)]
  ELSE [outcome |-> "die", value |-> NoValue]

\* create_warehouse, lines 100-162, in the order of its branches: what it
\* does with a response, and the value it returns
create_warehouse(resp) ==
  IF Is2xx(resp.code)
    THEN [outcome |-> "return",
          value |-> IF resp.body \in {"nojson", "null"}
                      THEN Value("dict", "raw_text", resp.code)
                    ELSE IF resp.body = "array"
                      THEN Value("list", "array", 0)
                    ELSE Value("dict", resp.body, 0)]
  ELSE IF resp.code = 202
    THEN [outcome |-> "poll", value |-> Value("dict", "raw_text", 202)]
  ELSE [outcome |-> "die", value |-> NoValue]

\* main, lines 194-198: the next workspace of the summary that has an id
RECURSIVE NextWorkspaceIdx(_, _)
NextWorkspaceIdx(workspaces, k) ==
  IF k > Len(workspaces) THEN k
  ELSE IF workspaces[k].workspace_id = None THEN NextWorkspaceIdx(workspaces, k + 1)
  ELSE k

\* main, lines 194-214: go on with workspace k, or return 0 after the last
PLW_Loop(k) ==
  LET n == NextWorkspaceIdx(fs.summary.workspaces, k) IN
  IF n > Len(fs.summary.workspaces)
    THEN /\ Exit(0)
         /\ loc' = [loc EXCEPT !.k = n]
    ELSE /\ pc' = "plw_lakehouse"
         /\ exitCode' = exitCode
         /\ loc' = [loc EXCEPT !.k = n]

\* main, lines 164-181: arguments, the summary, the credentials
PLW_Start(creds) ==
  /\ pc \in {"idle", "done"}
  /\ runs > 0
  /\ runs' = runs - 1
  /\ script' = "provision_lakehouses_warehouses"
  /\ args' = [creds |-> creds]
  /\ fs0' = fs
  /\ calls' = <<>>
  /\ fs' = fs
  /\ loc' = [token |-> None, tokenResp |-> None, k |-> 0,
             whCode |-> 0, whPolled |-> FALSE]
  /\ IF ~fs.summary.exists \/ ~creds
       THEN die
       ELSE /\ pc' = "plw_token" /\ exitCode' = NoExit

\* get_token_via_client_credentials, lines 44-47, and main, lines 185-188
PLW_Token(resp) ==
  /\ script = "provision_lakehouses_warehouses" /\ pc = "plw_token"
  /\ calls' = Append(calls, Call("token", None, None, None))
  /\ loc' = [loc EXCEPT !.token = TokenOf(resp), !.tokenResp = resp]
  /\ IF resp \in {Exc, "non200"} \/ fs.summary.controller.workspace_id = None
       THEN die
       ELSE /\ pc' = "plw_metrics" /\ exitCode' = exitCode
  /\ UNCHANGED <<script, args, fs, fs0, runs>>

\* main, lines 189-191: MetricsLakehouse in the controller workspace
PLW_Metrics(resp) ==
  /\ script = "provision_lakehouses_warehouses" /\ pc = "plw_metrics"
  /\ LET ctrl == fs.summary.controller IN
     /\ calls' = Append(calls, Call("createLakehouse", ctrl.workspace_id, "MetricsLakehouse", loc.token))
     /\ IF ~Raised(resp) /\ Is2xx(resp.code)
          THEN /\ fs' = write_state(fs, <<"lakehouse", "metrics">>, ctrl.sanitized_name,
                                    ctrl.workspace_id, Returned(resp))
               /\ PLW_Loop(1)
          ELSE /\ die
               /\ UNCHANGED <<fs, loc>>
  /\ UNCHANGED <<script, args, fs0, runs>>

\* main, lines 203-206: BenchmarkLakehouse in workspace k
PLW_Lakehouse(resp) ==
  /\ script = "provision_lakehouses_warehouses" /\ pc = "plw_lakehouse"
  /\ LET ws == fs.summary.workspaces[loc.k] IN
     /\ calls' = Append(calls, Call("createLakehouse", ws.workspace_id, "BenchmarkLakehouse", loc.token))
     /\ IF ~Raised(resp) /\ Is2xx(resp.code)
          THEN /\ fs' = write_state(fs, <<"lakehouse">>, ws.sanitized_name,
                                    ws.workspace_id, Returned(resp))
               /\ pc' = "plw_warehouse"
               /\ UNCHANGED <<loc, exitCode>>
          ELSE /\ die
               /\ UNCHANGED <<fs, loc>>
  /\ UNCHANGED <<script, args, fs0, runs>>

\* main, lines 208-211, with create_warehouse, lines 86-162:
\* BenchmarkWarehouse in workspace k. whCode is the status of the latest
\* warehouse response, whPolled whether create_warehouse went on to poll.
PLW_Warehouse(resp) ==
  /\ script = "provision_lakehouses_warehouses" /\ pc = "plw_warehouse"
  /\ LET ws == fs.summary.workspaces[loc.k]
         r == create_warehouse(resp)
         l == [loc EXCEPT !.whCode = resp.code, !.whPolled = FALSE]
     IN
     /\ calls' = Append(calls, Call("createWarehouse", ws.workspace_id, "BenchmarkWarehouse", loc.token))
     /\ IF Raised(resp) \/ r.outcome = "die"
          THEN /\ die
               /\ loc' = l
               /\ fs' = fs
        ELSE IF r.outcome = "poll"
          THEN /\ pc' = "plw_poll"
               /\ loc' = [l EXCEPT !.whPolled = TRUE]
               /\ UNCHANGED <<fs, exitCode>>
        ELSE LET n == NextWorkspaceIdx(fs.summary.workspaces, loc.k + 1) IN
             /\ fs' = write_state(fs, <<"warehouse">>, ws.sanitized_name,
                                  ws.workspace_id, r.value)
             /\ loc' = [l EXCEPT !.k = n]
             /\ IF n > Len(fs.summary.workspaces)
                  THEN Exit(0)
                  ELSE pc' = "plw_lakehouse" /\ exitCode' = exitCode
  /\ UNCHANGED <<script, args, fs0, runs>>


----------------------------------------------------------------------------
(* scripts/provision_notebooks.py *)

POLL_ATTEMPTS == 20
MaxNotebooks == 2

\* lines 54-64: the notebook -> workspace pairs, for one parameter set "p1"
AllNotebooks ==
  << [displayName |-> "0.GenerateData",    workspace |-> "BFF-Controller"],
     [displayName |-> "1.IngestData",      workspace |-> "p1"],
     [displayName |-> "2.ApplyUpdates",    workspace |-> "p1"],
     [displayName |-> "3.Queries",         workspace |-> "p1"],
     [displayName |-> "4.RunBenchmarks",   workspace |-> "BFF-Controller"],
     [displayName |-> "5.VisualizeMetrics", workspace |-> "BFF-Controller"] >>
notebooks == SubSeq(AllNotebooks, 1, MaxNotebooks)
NotebookNames == {notebooks[i].displayName : i \in 1..Len(notebooks)}
WorkspaceNames == {notebooks[i].workspace : i \in 1..Len(notebooks)}

WorkspaceIdOf(ws) == IF ws = "BFF-Controller" THEN "ws-c" ELSE "ws-1"
NotebookIdOf(display) == "id-notebook"

\* lines 236-246 with the fields the branches set
Entry(nb, workspace_id, status, code, notebook_id) ==
  [displayName |-> nb.displayName, workspace |-> nb.workspace,
   workspace_id |-> workspace_id, notebook_id |-> notebook_id,
   status |-> status, response_code |-> code]

\* lines 235-258: the pairs from i on that end without a request; the index
\* of the first pair to upload (or Len + 1) and the results so far
RECURSIVE PN_Skip(_, _, _, _)
PN_Skip(i, results, found, missing) ==
  IF i > Len(notebooks) THEN [i |-> i, results |-> results]
  ELSE LET nb == notebooks[i] IN
    IF nb.workspace \notin found
      THEN PN_Skip(i + 1, Append(results, Entry(nb, None, "workspace_not_found", 0, None)),
                   found, missing)
    ELSE IF nb.displayName \in missing
      THEN PN_Skip(i + 1, Append(results, Entry(nb, WorkspaceIdOf(nb.workspace),
                                               "missing_source_or_read_failed", 0, None)),
                   found, missing)
    ELSE [i |-> i, results |-> results]

\* lines 248-258 and 338-347: go on with pair i, or write the results and
\* exit 0 after the last; attempt is the tick count of the latest item poll
\* and listing its latest response
PN_Loop(i, results, attempt, listing) ==
  LET r == PN_Skip(i, results, loc.found, args.missing) IN
  /\ loc' = [loc EXCEPT !.i = r.i, !.results = r.results, !.attempt = attempt,
                        !.lastListing = listing]
  /\ IF r.i > Len(notebooks)
       THEN /\ fs' = [fs EXCEPT !.notebooksCreated = [exists |-> TRUE, results |-> r.results]]
            /\ Exit(0)
       ELSE /\ pc' = "pn_upload"
            /\ UNCHANGED <<fs, exitCode>>

\* lines 45-77: the parameter file, the manifest, the credentials
PN_Start(cfgOk, creds, missing) ==
  /\ pc \in {"idle", "done"}
  /\ runs > 0
  /\ runs' = runs - 1
  /\ script' = "provision_notebooks"
  /\ args' = [cfgOk |-> cfgOk, creds |-> creds, missing |-> missing]
  /\ fs0' = fs
  /\ calls' = <<>>
  /\ fs' = fs
  /\ loc' = [token |-> None, found |-> {}, i |-> 1, results |-> <<>>, attempt |-> 0,
             lastListing |-> NoListing, polled |-> 0]
  /\ IF ~cfgOk THEN Exit(2)
     ELSE IF ~creds THEN Exit(4)
     ELSE /\ pc' = "pn_token" /\ exitCode' = NoExit

\* lines 87-98: the token request
PN_Token(resp) ==
  /\ script = "provision_notebooks" /\ pc = "pn_token"
  /\ calls' = Append(calls, Call("token", None, None, None))
  /\ IF resp = "non200" THEN Exit(5) /\ loc' = loc
     ELSE IF resp = "noAccessToken" THEN Exit(6) /\ loc' = loc
     ELSE IF resp = Exc THEN Exit(7) /\ loc' = loc
     ELSE /\ loc' = [loc EXCEPT !.token = Token]
          /\ pc' = "pn_workspaces"
          /\ exitCode' = exitCode
  /\ UNCHANGED <<script, args, fs, fs0, runs>>

\* lines 102-110 and the loop up to the first upload: `found` are the display
\* names of the workspaces listing, {} when the request fails
PN_Workspaces(found) ==
  /\ script = "provision_notebooks" /\ pc = "pn_workspaces"
  /\ calls' = Append(calls, Call("listWorkspaces", None, None, loc.token))
  /\ LET r == PN_Skip(1, <<>>, found, args.missing) IN
     /\ loc' = [loc EXCEPT !.found = found, !.i = r.i, !.results = r.results]
     /\ IF r.i > Len(notebooks)
          THEN /\ fs' = [fs EXCEPT !.notebooksCreated = [exists |-> TRUE, results |-> r.results]]
               /\ Exit(0)
          ELSE /\ pc' = "pn_upload"
               /\ UNCHANGED <<fs, exitCode>>
  /\ UNCHANGED <<script, args, fs0, runs>>

\* lines 260-336: upload notebook i
PN_Upload(resp) ==
  /\ script = "provision_notebooks" /\ pc = "pn_upload"
  /\ LET nb == notebooks[loc.i]
         wid == WorkspaceIdOf(nb.workspace)
     IN
     /\ calls' = Append(calls, Call("createNotebook", wid, nb.displayName, loc.token))
     /\ IF Raised(resp)
          THEN PN_Loop(loc.i + 1, Append(loc.results,
                 Entry(nb, wid, "exception_during_upload", 0, None)), loc.attempt, loc.lastListing)
        ELSE IF resp.code \in {200, 201}
          THEN PN_Loop(loc.i + 1, Append(loc.results,
                 Entry(nb, wid, "created", resp.code,
                       IF resp.body = "id" THEN NotebookIdOf(nb.displayName) ELSE None)),
                 loc.attempt, loc.lastListing)
        ELSE IF resp.code = 202
          THEN /\ pc' = "pn_poll"
               /\ loc' = [loc EXCEPT !.attempt = 0, !.lastListing = NoListing,
                                     !.polled = loc.i]
               /\ UNCHANGED <<fs, exitCode>>
        ELSE PN_Loop(loc.i + 1, Append(loc.results,
                 Entry(nb, wid, "upload_failed", resp.code, None)), loc.attempt, loc.lastListing)
  /\ UNCHANGED <<script, args, fs0, runs>>

\* every accepted upload recorded as created, whatever the poll found
AsyncStatusAlwaysCreated(nid) == "created_async"

\* the status left as it was initialised when the poll found nothing
AsyncStatusUnset(nid) == IF nid # None THEN "created_async" ELSE None

\* lines 323-329: the status of an upload answered 202, from what the poll returned
AsyncStatus(nid) == IF nid # None THEN "created_async" ELSE "accepted_no_completion"

\* _poll_for_item, line 117: for attempt in range(1, POLL_ATTEMPTS + 1)
PN_PollGuard(attempt) == attempt < POLL_ATTEMPTS

\* _poll_for_item, lines 117-128, and lines 323-330: one tick of the item poll
PN_Poll(resp) ==
  /\ script = "provision_notebooks" /\ pc = "pn_poll"
  /\ PN_PollGuard(loc.attempt)
  /\ LET nb == notebooks[loc.i]
         wid == WorkspaceIdOf(nb.workspace)
     IN
     /\ calls' = calls
     /\ IF ~Raised(resp) /\ ListingMatches(resp)
          THEN PN_Loop(loc.i + 1, Append(loc.results,
                 Entry(nb, wid, AsyncStatus(NotebookIdOf(nb.displayName)), 202,
                       NotebookIdOf(nb.displayName))),
                 loc.attempt + 1, resp)
          ELSE IF PN_PollGuard(loc.attempt + 1)
            THEN /\ loc' = [loc EXCEPT !.attempt = @ + 1, !.lastListing = resp]
                 /\ UNCHANGED <<pc, fs, exitCode>>
            ELSE PN_Loop(loc.i + 1, Append(loc.results,
                   Entry(nb, wid, AsyncStatus(None), 202, None)),
                   loc.attempt + 1, resp)
  /\ UNCHANGED <<script, args, fs0, runs>>


----------------------------------------------------------------------------
(* scripts/generate_synthetic_data.py *)

JOB_POLLS == 60           \* line 165: range(1, 61)
DEFAULT_MAX_WAIT == 600   \* lines 256 and 261
min_sleep == 2
max_sleep == 10
MaxGetDefAttempts == 3    \* attempts explored when the wait is unlimited

\* str.lower() on the status values the remote reports
Lower(x) ==
  CASE x \in {"Failed", "FAILED", "failed"} -> "failed"
    [] x \in {"Running", "running"} -> "running"
    [] x \in {"Succeeded", "succeeded"} -> "succeeded"
    [] x \in {"Completed", "COMPLETED", "completed"} -> "completed"
    [] x \in {"CompletedWithWarnings", "completedWithWarnings"} -> "completedwithwarnings"
    [] x \in {"NotStarted", "notstarted"} -> "notstarted"
    [] OTHER -> x

StatusValues == {"Failed", "FAILED", "failed", "Running", "Succeeded", "NotStarted",
                 "COMPLETED", "completedWithWarnings"}

\* what a GET of the job instance returns
InstanceBodies ==
  {NoInstance}
    \cup {[json |-> TRUE, status |-> a, state |-> None] : a \in StatusValues \cup {None}}
    \cup {[json |-> TRUE, status |-> None, state |-> b] : b \in {"Failed", "Running"}}
InstanceResponses == [code : {200, 503}, body : InstanceBodies] \cup {[code |-> 0, body |-> NoInstance]}

\* line 175: j.get("status") or j.get("state") or ...
StatusHint(j) ==
  IF ~j.json THEN None
  ELSE IF j.status # None THEN j.status ELSE j.state

\* the comparison without lower(): only the lower-case spelling counts
JobFailedCaseSensitive(hint) == hint = "failed"

\* line 177: the instance failed
JobFailed(hint) == hint # None /\ Lower(hint) = "failed"

\* the comparison without lower(): only the lower-case spellings count
JobSucceededCaseSensitive(code, hint) ==
  Is2xx(code) /\ (hint = None \/ hint \in {"succeeded", "finished", "completed", "completedwithwarnings"})

\* line 180: the instance reached a terminal success state
JobSucceeded(code, hint) ==
  Is2xx(code) /\ (hint = None \/ Lower(hint) \in {"succeeded", "finished", "completed", "completedwithwarnings"})

\* the responses to the RunNotebook POST: status and whether a Location header came
RunResponses == [code : Codes, location : BOOLEAN] \cup {[code |-> 0, location |-> FALSE]}

\* MAX_GETDEF_WAIT_SECONDS: unset, an integer, or text that int() rejects
WaitEnv == {[kind |-> "unset", val |-> 0], [kind |-> "text", val |-> 0]}
             \cup {[kind |-> "int", val |-> v] : v \in {-1, 0, 4}}

\* lines 254-264: max_wait_seconds, 0 standing for None (no limit)
MaxWaitSeconds(env) ==
  LET v == IF env.kind = "int" THEN env.val ELSE DEFAULT_MAX_WAIT IN
  IF v <= 0 THEN 0 ELSE v

\* lines 291 and 375
SleepFor(attempt) == IF min_sleep + attempt < max_sleep THEN min_sleep + attempt ELSE max_sleep

\* lines 433-439
GSD_ExitCode(instance, runCode) ==
  IF instance.json /\ instance.status # None /\ Lower(instance.status) = "failed" THEN 12
  ELSE IF Is2xx(runCode) \/ runCode = 202 THEN 0
  ELSE 11

\* lines 12-15: the parameter file and the credentials
GSD_Start(creds, envName, waitEnv) ==
  /\ pc \in {"idle", "done"}
  /\ runs > 0
  /\ runs' = runs - 1
  /\ script' = "generate_synthetic_data"
  /\ args' = [creds |-> creds, envName |-> envName, max_wait |-> MaxWaitSeconds(waitEnv)]
  /\ fs0' = fs
  /\ calls' = <<>>
  /\ fs' = fs
  /\ loc' = [token |-> None, runCode |-> 0, location |-> FALSE,
             instance |-> NoInstance, attempt |-> 0, lastHint |-> None,
             polled |-> FALSE, lastCode |-> 0, elapsed |-> 0,
             getdef |-> "none"]
  /\ IF ~creds THEN Exit(1)
     ELSE /\ pc' = "gsd_token" /\ exitCode' = NoExit

\* lines 22-35
GSD_Token(resp) ==
  /\ script = "generate_synthetic_data" /\ pc = "gsd_token"
  /\ calls' = Append(calls, Call("token", None, None, None))
  /\ IF resp = Exc THEN Exit(1) /\ loc' = loc
     ELSE IF resp # "ok" THEN Exit(5) /\ loc' = loc
     ELSE /\ loc' = [loc EXCEPT !.token = Token]
          /\ pc' = "gsd_workspaces"
          /\ exitCode' = exitCode
  /\ UNCHANGED <<script, args, fs, fs0, runs>>

\* lines 40-49: the id of workspace "BFF Controller"
GSD_Workspaces(resp) ==
  /\ script = "generate_synthetic_data" /\ pc = "gsd_workspaces"
  /\ calls' = Append(calls, Call("listWorkspaces", None, None, loc.token))
  /\ IF Raised(resp) THEN Exit(1)
     ELSE IF resp.code # 200 THEN Exit(6)
     ELSE IF resp.body # "match" THEN Exit(7)
     ELSE /\ pc' = "gsd_items" /\ exitCode' = exitCode
  /\ UNCHANGED <<script, args, loc, fs, fs0, runs>>

\* lines 52-64: the id of notebook "0.GenerateData"
GSD_Items(resp) ==
  /\ script = "generate_synthetic_data" /\ pc = "gsd_items"
  /\ calls' = Append(calls, Call("listItems", "ws-c", "0.GenerateData", loc.token))
  /\ IF Raised(resp) THEN Exit(1)
     ELSE IF resp.code # 200 THEN Exit(8)
     ELSE IF resp.body # "match" THEN Exit(9)
     ELSE /\ pc' = "gsd_lakehouses" /\ exitCode' = exitCode
  /\ UNCHANGED <<script, args, loc, fs, fs0, runs>>

\* lines 100-106: the id of the default lakehouse, if it is listed
GSD_Lakehouses(resp) ==
  /\ script = "generate_synthetic_data" /\ pc = "gsd_lakehouses"
  /\ calls' = Append(calls, Call("listLakehouses", "ws-c", "DataSourceLakehouse", loc.token))
  /\ IF Raised(resp) THEN Exit(1)
     ELSE /\ pc' = IF args.envName THEN "gsd_environments" ELSE "gsd_run"
          /\ exitCode' = exitCode
  /\ UNCHANGED <<script, args, loc, fs, fs0, runs>>

\* lines 118-124: the id of the environment the parameters name
GSD_Environments(resp) ==
  /\ script = "generate_synthetic_data" /\ pc = "gsd_environments"
  /\ calls' = Append(calls, Call("listEnvironments", "ws-c", None, loc.token))
  /\ IF Raised(resp) THEN Exit(1)
     ELSE /\ pc' = "gsd_run" /\ exitCode' = exitCode
  /\ UNCHANGED <<script, args, loc, fs, fs0, runs>>

\* lines 184-187: persist the run result
GSD_Persist(l) ==
  fs' = [fs EXCEPT !.runResult = [exists |-> TRUE, status_code |-> l.runCode,
                                  location |-> l.location, instance |-> l.instance]]

\* lines 142-163
GSD_Run(resp) ==
  /\ script = "generate_synthetic_data" /\ pc = "gsd_run"
  /\ calls' = Append(calls, Call("runNotebook", "ws-c", "0.GenerateData", loc.token))
  /\ IF Raised(resp)
       THEN Exit(1) /\ UNCHANGED <<loc, fs>>
       ELSE LET l == [loc EXCEPT !.runCode = resp.code, !.location = resp.location] IN
            /\ loc' = l
            /\ exitCode' = exitCode
            /\ IF resp.code = 202 /\ resp.location
                 THEN /\ pc' = "gsd_poll" /\ fs' = fs
                 ELSE /\ GSD_Persist(l)
                      /\ pc' = IF resp.location THEN "gsd_activities" ELSE "gsd_getdef"
  /\ UNCHANGED <<script, args, fs0, runs>>

\* line 165: for attempt in range(1, 61)
GSD_PollGuard(attempt) == attempt < JOB_POLLS

\* lines 165-187: one tick of the job instance poll
GSD_Poll(resp) ==
  /\ script = "generate_synthetic_data" /\ pc = "gsd_poll"
  /\ GSD_PollGuard(loc.attempt)
  /\ calls' = calls
  /\ IF Raised(resp)
       THEN /\ Exit(1)
            /\ loc' = [loc EXCEPT !.attempt = @ + 1, !.lastCode = resp.code]
            /\ fs' = fs
       ELSE LET hint == StatusHint(resp.body)
                l == [loc EXCEPT !.attempt = @ + 1, !.lastHint = hint, !.polled = TRUE,
                                 !.lastCode = resp.code,
                                 !.instance = IF resp.body.json THEN resp.body ELSE @]
            IN
            /\ loc' = l
            /\ exitCode' = exitCode
            /\ IF JobFailed(hint) \/ JobSucceeded(resp.code, hint) \/ ~GSD_PollGuard(l.attempt)
                 THEN /\ GSD_Persist(l)
                      /\ pc' = "gsd_activities"
                 ELSE UNCHANGED <<pc, fs>>
  /\ UNCHANGED <<script, args, fs0, runs>>

\* lines 190-195: the activities of the instance, best effort (try/except)
GSD_Activities ==
  /\ script = "generate_synthetic_data" /\ pc = "gsd_activities"
  /\ calls' = Append(calls, Call("getActivities", "ws-c", "location", loc.token))
  /\ pc' = "gsd_outputs"
  /\ UNCHANGED <<script, args, loc, fs, fs0, exitCode, runs>>

\* lines 196-200: the outputs of the instance, best effort (try/except)
GSD_Outputs ==
  /\ script = "generate_synthetic_data" /\ pc = "gsd_outputs"
  /\ calls' = Append(calls, Call("getOutputs", "ws-c", "location", loc.token))
  /\ pc' = "gsd_instance"
  /\ UNCHANGED <<script, args, loc, fs, fs0, exitCode, runs>>

\* lines 216-241: the job instance once more, for the log; lines 248-276
GSD_Instance ==
  /\ script = "generate_synthetic_data" /\ pc = "gsd_instance"
  /\ calls' = Append(calls, Call("getInstance", "ws-c", "location", loc.token))
  /\ pc' = "gsd_getdef"
  /\ loc' = [loc EXCEPT !.attempt = 0]
  /\ UNCHANGED <<script, args, fs, fs0, exitCode, runs>>

\* what the GetDefinition POST (and the GET of its Location) comes to
GetDefOutcomes == {"exc", "running", "terminal", "payload", "nothing"}

\* lines 395-439: the job instance logs, if there is a location, and the exit code
GSD_LogsAndExit ==
  /\ calls' = IF loc.location
                THEN Append(calls, Call("getLogs", "ws-c", "location", loc.token))
                ELSE calls
  /\ Exit(GSD_ExitCode(loc.instance, loc.runCode))

\* lines 278-377: one pass of the GetDefinition loop; requests take no time.
\* Without a limit (max_wait = 0 for None) the passes after MaxGetDefAttempts
\* are not counted any more: attempt and elapsed stay, the loop goes on.
GSD_GetDef(outcome) ==
  /\ script = "generate_synthetic_data" /\ pc = "gsd_getdef"
  /\ LET max_wait == args.max_wait
         counted == max_wait # 0 \/ loc.attempt < MaxGetDefAttempts
         attempt == IF counted THEN loc.attempt + 1 ELSE loc.attempt
         sleep_s == IF counted THEN SleepFor(attempt) ELSE 0
         l == [loc EXCEPT !.attempt = attempt, !.getdef = outcome]
     IN
     /\ calls' = calls
     /\ IF outcome = "exc"
          THEN /\ pc' = IF max_wait # 0 /\ loc.elapsed + sleep_s >= max_wait
                          THEN "gsd_logs" ELSE pc
               /\ loc' = [l EXCEPT !.elapsed = @ + sleep_s]
               /\ fs' = fs
        ELSE IF outcome = "terminal"
          THEN /\ pc' = "gsd_logs"
               /\ loc' = l
               /\ fs' = fs
        ELSE IF outcome = "payload"
          THEN /\ pc' = "gsd_logs"
               /\ loc' = l
               /\ fs' = [fs EXCEPT !.executed = TRUE]
        ELSE IF max_wait # 0 /\ loc.elapsed >= max_wait
          THEN /\ pc' = "gsd_logs"
               /\ loc' = l
               /\ fs' = fs
          ELSE /\ pc' = pc
               /\ loc' = [l EXCEPT !.elapsed = @ + sleep_s]
               /\ fs' = fs
  /\ UNCHANGED <<script, args, fs0, exitCode, runs>>

GSD_Logs ==
  /\ script = "generate_synthetic_data" /\ pc = "gsd_logs"
  /\ GSD_LogsAndExit
  /\ UNCHANGED <<script, args, loc, fs, fs0, runs>>

----------------------------------------------------------------------------

Init ==
  /\ script = "none"
  /\ pc = "idle"
  /\ args = NoLocals
  /\ loc = NoLocals
  /\ fs = EmptyFs
  /\ fs0 = EmptyFs
  /\ calls = <<>>
  /\ exitCode = NoExit
  /\ runs = MaxRuns

NextWorkspace ==
  \/ \E force, dryRun, creds, adminSet \in BOOLEAN, m \in 0..MaxRetries :
       PW_Start(force, dryRun, creds, adminSet, m)
  \/ \E resp \in TokenResponses : PW_Token(resp)
  \/ \E resp \in Responses : PW_Create(resp)
  \/ \E resp \in StatusOnly : PW_AssignAttempt(resp)
  \/ PW_AssignExhausted

SpecWorkspace == Init /\ [][NextWorkspace]_vars

NextLakehousesWarehouse ==
  \/ LW1_Start
  \/ \E resp \in TokenResponses : LW1_Token(resp)
  \/ \E resp \in Responses : LW1_Lakehouse(resp)
  \/ \E resp \in Responses : LW1_Warehouse(resp)
  \/ \E resp \in Listings : LW1_Poll(resp)

MaxWorkspaces == 1

\* the merged summaries the assemble job may have left
Entries == {WsEntry(None, <<"a">>), WsEntry("ws-1", <<"a">>), WsEntry("ws-2", <<"b">>)}
Summaries ==
  { [exists |-> e, controller |-> WsEntry(c, <<"ctl">>), workspaces |-> w] :
      e \in BOOLEAN, c \in {None, "ws-c"},
      w \in UNION {[1..n -> Entries] : n \in 0..MaxWorkspaces} }

InitLakehouses ==
  /\ script = "none"
  /\ pc = "idle"
  /\ args = NoLocals
  /\ loc = NoLocals
  /\ \E sm \in Summaries : fs = [EmptyFs EXCEPT !.summary = sm]
  /\ fs0 = fs
  /\ calls = <<>>
  /\ exitCode = NoExit
  /\ runs = MaxRuns

NextLakehouses ==
  \/ \E creds \in BOOLEAN : PLW_Start(creds)
  \/ \E resp \in TokenResponses : PLW_Token(resp)
  \/ \E resp \in Responses : PLW_Metrics(resp)
  \/ \E resp \in Responses : PLW_Lakehouse(resp)
  \/ \E resp \in WarehouseResponses : PLW_Warehouse(resp)

SpecLakehouses == InitLakehouses /\ [][NextLakehouses]_vars

\* summaries of several workspaces, where two workspaces may have been
\* provisioned under the same --sanitized-name
SharedEntries == {WsEntry("ws-1", <<"a">>), WsEntry("ws-2", <<"a">>), WsEntry("ws-2", <<"b">>)}

InitSeveral ==
  /\ script = "none"
  /\ pc = "idle"
  /\ args = NoLocals
  /\ loc = NoLocals
  /\ \E w \in [1..(MaxWorkspaces + 1) -> SharedEntries] :
       fs = [EmptyFs EXCEPT !.summary = [exists |-> TRUE,
                                         controller |-> WsEntry("ws-c", <<"ctl">>),
                                         workspaces |-> w]]
  /\ fs0 = fs
  /\ calls = <<>>
  /\ exitCode = NoExit
  /\ runs = 1

\* one run of provision_lakehouses_warehouses over such a summary
SpecSeveral == InitSeveral /\ [][NextLakehouses]_vars

\* one run of either script that calls a resource creator
SpecCreators == InitSeveral /\ [][NextWorkspace \/ NextLakehouses]_vars

NextNotebooks ==
  \/ \E cfgOk, creds \in BOOLEAN, missing \in SUBSET NotebookNames :
       PN_Start(cfgOk, creds, missing)
  \/ \E resp \in TokenResponses : PN_Token(resp)
  \/ \E found \in SUBSET WorkspaceNames : PN_Workspaces(found)
  \/ \E resp \in Responses : PN_Upload(resp)
  \/ \E resp \in Listings : PN_Poll(resp)

\* one run, in a directory where provision_workspace has or has not run
InitOnce ==
  /\ script = "none"
  /\ pc = "idle"
  /\ args = NoLocals
  /\ loc = NoLocals
  /\ \E w \in {NoFile, RealWsId, SynthId} : fs = [EmptyFs EXCEPT !.stateWsTxt = w]
  /\ fs0 = fs
  /\ calls = <<>>
  /\ exitCode = NoExit
  /\ runs = 1

SpecNotebooks == InitOnce /\ [][NextNotebooks]_vars

NextGenerate ==
  \/ \E creds, envName \in BOOLEAN, waitEnv \in WaitEnv : GSD_Start(creds, envName, waitEnv)
  \/ \E resp \in TokenResponses : GSD_Token(resp)
  \/ \E resp \in Listings : GSD_Workspaces(resp)
  \/ \E resp \in Listings : GSD_Items(resp)
  \/ \E resp \in Listings : GSD_Lakehouses(resp)
  \/ \E resp \in Listings : GSD_Environments(resp)
  \/ \E resp \in RunResponses : GSD_Run(resp)
  \/ \E resp \in InstanceResponses : GSD_Poll(resp)
  \/ GSD_Activities
  \/ GSD_Outputs
  \/ GSD_Instance
  \/ \E outcome \in GetDefOutcomes : GSD_GetDef(outcome)
  \/ GSD_Logs

SpecGenerate == InitOnce /\ [][NextGenerate]_vars

\* the process, once started, takes its next step
SpecGenerateFair == SpecGenerate /\ WF_vars(NextGenerate)

\* the scripts that poll, one run of one of them
SpecPolling == InitOnce /\ [][NextLakehousesWarehouse \/ NextNotebooks \/ NextGenerate]_vars

\* provision_workspace, then provision_lakehouses_warehouse on what it left
SpecPipeline == Init /\ [][NextWorkspace \/ NextLakehousesWarehouse]_vars

\* provision_workspace, with a kill during its write of the artifact
NextKill ==
  \/ NextWorkspace
  \/ \E resp \in Responses, point \in KillPoints : PW_CreateKilled(resp, point)

SpecKill == Init /\ [][NextKill]_vars

\* one run of provision_workspace or of provision_notebooks
SpecRetry == InitOnce /\ [][NextWorkspace \/ NextNotebooks]_vars

\* provision_workspace and provision_notebooks, run again in the same directory
SpecRerun == Init /\ [][NextWorkspace \/ NextNotebooks]_vars

----------------------------------------------------------------------------
(* Properties *)

CreationApis == {"createWorkspace", "createLakehouse", "createWarehouse", "createNotebook"}

\* the state file of an earlier run records a created resource with its id
RecordedSuccess(f, resource_kind, sanitized_name, workspace_id) ==
  LET rec == f.state[FileName(resource_kind, sanitized_name)] IN
  rec.exists /\ rec.workspace_id = workspace_id /\ rec.api_response.content = "id"

\* the run has issued a creation call for that resource
Created(api, workspace_id, name) ==
  \E i \in DOMAIN calls :
    calls[i].api = api /\ calls[i].ws = workspace_id /\ calls[i].name = name

\* C1: Idempotency. A resource whose record from an earlier run shows success
\* gets no creation call in a later run and its record stays as it was; for
\* provision_workspace, an artifact with a workspace_id and no --force means
\* no request at all and no rewrite of the files.
C1_Idempotency ==
  /\ script = "provision_workspace" /\ ~args.force /\ ExistingId(fs0) # None
       => calls = <<>> /\ fs = fs0
  /\ script = "provision_lakehouses_warehouses" =>
       LET ctrl == fs.summary.controller
           wss == fs.summary.workspaces
       IN
       /\ RecordedSuccess(fs0, <<"lakehouse", "metrics">>, ctrl.sanitized_name, ctrl.workspace_id)
            => ~Created("createLakehouse", ctrl.workspace_id, "MetricsLakehouse")
       /\ \A k \in DOMAIN wss :
            /\ RecordedSuccess(fs0, <<"lakehouse">>, wss[k].sanitized_name, wss[k].workspace_id)
                 => ~Created("createLakehouse", wss[k].workspace_id, "BenchmarkLakehouse")
            /\ RecordedSuccess(fs0, <<"warehouse">>, wss[k].sanitized_name, wss[k].workspace_id)
                 => ~Created("createWarehouse", wss[k].workspace_id, "BenchmarkWarehouse")

\* a second run of provision_lakehouses_warehouses has posted MetricsLakehouse
\* again although the first run recorded it with its id
C1_Recreated ==
  /\ script = "provision_lakehouses_warehouses"
  /\ RecordedSuccess(fs0, <<"lakehouse", "metrics">>, fs.summary.controller.sanitized_name,
                     fs.summary.controller.workspace_id)
  /\ Created("createLakehouse", fs.summary.controller.workspace_id, "MetricsLakehouse")

\* the workspace record on disk shows a created workspace
WorkspaceSucceeded(f) == f.artifact.exists /\ f.artifact.created

\* C2: Ordering. No creation call for a child of the workspace (a lakehouse,
\* a warehouse) is issued unless the workspace's record has reached success.
C2_ChildAfterParent ==
  script = "provision_lakehouses_warehouse" =>
    \A i \in DOMAIN calls :
      calls[i].api \in {"createLakehouse", "createWarehouse"} => WorkspaceSucceeded(fs)

\* a lakehouse was posted to a workspace whose record does not show success
C2_ChildOfUnfinishedParent ==
  /\ script = "provision_lakehouses_warehouse"
  /\ ~WorkspaceSucceeded(fs)
  /\ CallsTo("createLakehouse") # <<>>

\* the workspace run ended without a created workspace: missing credentials,
\* no token, or a failed create call
WorkspaceFailed(f) ==
  /\ f.artifact.exists /\ ~f.artifact.created
  /\ f.artifact.note \in {"fallback-synthetic-id-no-credentials",
                          "fallback-synthetic-id-token-failure",
                          "fallback-synthetic-id-api-failure"}

\* C3: A failed workspace has its subtree skipped: the script that takes the
\* id from .state/workspace_id.txt issues no request for it, and writes no ids.
C3_FailedParentSkipsChildren ==
  script = "provision_lakehouses_warehouse" /\ WorkspaceFailed(fs0) =>
    /\ \A i \in DOMAIN calls : calls[i].api \notin CreationApis
    /\ fs.lakehouseIds = fs0.lakehouseIds
    /\ fs.warehouseId = fs0.warehouseId

\* lakehouses and the warehouse were created under the synthetic id of a
\* failed workspace, and the run exited 0
C3_ChildrenOfFailedParent ==
  /\ script = "provision_lakehouses_warehouse" /\ WorkspaceFailed(fs0)
  /\ pc = "done" /\ exitCode = 0
  /\ loc.workspace_id = SynthId
  /\ CallsTo("createWarehouse") # <<>>

\* C4: Poll termination. A poll loop that is still polling has made fewer
\* than its maximum of ticks, so that after at most max_attempts (warehouse),
\* POLL_ATTEMPTS (notebook) or 60 (job instance) ticks it is over, whatever
\* the responses were.
C4_PollTermination ==
  /\ script = "provision_lakehouses_warehouse" =>
       /\ loc.attempt <= max_attempts
       /\ pc = "lw1_poll" => loc.attempt < max_attempts
  /\ script = "provision_notebooks" =>
       /\ loc.attempt <= POLL_ATTEMPTS
       /\ pc = "pn_poll" => loc.attempt < POLL_ATTEMPTS
  /\ script = "generate_synthetic_data" /\ pc = "gsd_poll" => loc.attempt < JOB_POLLS

\* the warehouse poll used all its ticks without a match and the run is over
C4_PollExhausted ==
  /\ script = "provision_lakehouses_warehouse"
  /\ pc = "done"
  /\ loc.attempt = max_attempts
  /\ loc.warehouse_id = None
  /\ exitCode = 1

C6_ConflictResolved ==
  script = "provision_lakehouses_warehouse" /\ pc = "done" =>
    /\ warehouse_name \in loc.conflicts =>
         exitCode = 0 /\ fs.warehouseId = IdOf(warehouse_name)
    /\ \A i \in DOMAIN lakehouse_names :
         lakehouse_names[i] \in loc.conflicts /\ exitCode = 0 =>
           \E j \in DOMAIN fs.lakehouseIds.ids :
             fs.lakehouseIds.ids[j] = IdOf(lakehouse_names[i])

\* the warehouse create got 409 and the run exited 1 without a warehouse id
C6_ConflictFails ==
  /\ script = "provision_lakehouses_warehouse" /\ pc = "done"
  /\ warehouse_name \in loc.conflicts
  /\ exitCode = 1
  /\ fs.warehouseId = fs0.warehouseId

\* C7: Retry bound. The role assignment is posted at most max_retries times,
\* the workspace create once, and a loop that ran out returns the terminal
\* status "failed", which is what the artifact records.
C7_RetryBound ==
  script = "provision_workspace" =>
    /\ Len(CallsTo("assignRole")) <= args.maxRetries
    /\ Len(CallsTo("assignRole")) = loc.attempts
    /\ Len(CallsTo("createWorkspace")) <= 1
    /\ pc = "done" /\ CallsTo("assignRole") # <<>> =>
         /\ loc.assignStatus \in {"succeeded", "failed-non-retryable", "failed"}
         /\ fs.artifact.admin = AssignMeta(loc.assignStatus, loc.attempts, loc.assignCode)
         /\ loc.assignStatus = "failed" => loc.attempts = args.maxRetries

\* every attempt of the assignment was answered 503 (or raised), the loop
\* ran out after max_retries posts and the artifact records "failed"
C7_Exhausted ==
  /\ script = "provision_workspace" /\ pc = "done"
  /\ args.maxRetries = MaxRetries
  /\ Len(CallsTo("assignRole")) = MaxRetries
  /\ fs.artifact.admin.status = "failed"
  /\ fs.artifact.admin.attempts = MaxRetries

\* every notebook of the run has an entry that shows it created
AllNotebooksSucceeded ==
  /\ fs.notebooksCreated.exists
  /\ Len(fs.notebooksCreated.results) = Len(notebooks)
  /\ \A i \in DOMAIN fs.notebooksCreated.results :
       fs.notebooksCreated.results[i].status \in {"created", "created_async"}

\* C8: The exit code is 0 exactly when every required resource of the run
\* ended as succeeded.
C8_ExitCode ==
  script = "provision_notebooks" /\ pc = "done" =>
    (exitCode = 0 <=> AllNotebooksSucceeded)

\* provision_notebooks exited 0 with an upload that failed
C8_ExitZeroWithFailure ==
  /\ script = "provision_notebooks" /\ pc = "done" /\ exitCode = 0
  /\ \E i \in DOMAIN fs.notebooksCreated.results :
       fs.notebooksCreated.results[i].status = "upload_failed"

\* C9: provision_workspace returns non-zero when the create call is answered
\* with a non-2xx status.
C9_NonZeroOnCreateFailure ==
  script = "provision_workspace" /\ pc = "done"
    /\ CallsTo("createWorkspace") # <<>>
    /\ loc.createCode # 0 /\ ~Is2xx(loc.createCode)
    => exitCode # 0

\* the create call was answered 4xx or 5xx and main returned 0
C9_ZeroOnCreateFailure ==
  /\ script = "provision_workspace" /\ pc = "done"
  /\ loc.createCode >= 400
  /\ exitCode = 0
  /\ fs.artifact.note = "fallback-synthetic-id-api-failure"

\* C10: A failed credential exchange is fatal: after a token request that
\* gave no token, no other request is issued and the run does not exit 0.
C10_TokenFailureFatal ==
  script # "none" /\ CallsTo("token") # <<>> /\ pc # "idle" /\ loc.token = None
    /\ pc \notin {"pw_token", "lw1_token", "plw_token", "pn_token", "gsd_token"} =>
      /\ \A i \in DOMAIN calls : calls[i].api = "token"
      /\ pc = "done" => exitCode # 0

\* a lakehouse was posted with the token None of a response without access_token
C10_CallWithoutToken ==
  /\ script = "provision_lakehouses_warehouses"
  /\ loc.tokenResp = "noAccessToken"
  /\ \E i \in DOMAIN calls : calls[i].api = "createLakehouse" /\ calls[i].tok = None

\* C11: A failed resource does not abort its siblings. A run that has begun
\* to provision (MetricsLakehouse was posted) and is over has posted the
\* lakehouse and the warehouse of every workspace that has an id.
C11_SiblingsAttempted ==
  script = "provision_lakehouses_warehouses" /\ pc = "done"
    /\ Created("createLakehouse", fs.summary.controller.workspace_id, "MetricsLakehouse") =>
      \A k \in DOMAIN fs.summary.workspaces :
        LET ws == fs.summary.workspaces[k] IN
        ws.workspace_id # None =>
          /\ Created("createLakehouse", ws.workspace_id, "BenchmarkLakehouse")
          /\ Created("createWarehouse", ws.workspace_id, "BenchmarkWarehouse")

\* MetricsLakehouse was refused, the run died, and the lakehouse of a
\* workspace with an id was never posted
C11_SiblingNotAttempted ==
  /\ script = "provision_lakehouses_warehouses" /\ pc = "done" /\ exitCode = 1
  /\ Len(CallsTo("createLakehouse")) = 1
  /\ calls[Len(calls)].name = "MetricsLakehouse"
  /\ \E k \in DOMAIN fs.summary.workspaces : fs.summary.workspaces[k].workspace_id # None

\* C12: Once the token is there, the run completes and persists every
\* outcome: at the end the ids of the lakehouses and of the warehouse that
\* were created are in the state files.
C12_OutcomesPersisted ==
  script = "provision_lakehouses_warehouse" /\ pc = "done" /\ loc.token # None =>
    /\ fs.lakehouseIds.exists
    /\ fs.lakehouseIds.ids = loc.lakehouse_ids
    /\ loc.warehouse_id # None => fs.warehouseId = loc.warehouse_id

\* the first lakehouse was created, the second was refused, and the run
\* exited 1 without writing the id of the first
C12_CreatedButNotPersisted ==
  /\ script = "provision_lakehouses_warehouse" /\ pc = "done" /\ exitCode = 1
  /\ loc.lakehouse_ids = <<IdOf("BenchmarkLakehouse")>>
  /\ Len(CallsTo("createLakehouse")) = 2
  /\ ~fs.lakehouseIds.exists

\* C13: When the warehouse POST is answered 202, create_warehouse polls
\* before it returns a result.
C13_AcceptedIsPolled ==
  script = "provision_lakehouses_warehouses" /\ loc.whCode = 202 => loc.whPolled

\* the warehouse POST was answered 202 and create_warehouse returned at once:
\* the state file is written, no poll was made
C13_AcceptedNotPolled ==
  /\ script = "provision_lakehouses_warehouses"
  /\ loc.whCode = 202 /\ ~loc.whPolled
  /\ pc # "plw_poll"
  /\ \E n \in SNames :
       /\ fs.state[FileName(<<"warehouse">>, n)].exists
       /\ ~fs0.state[FileName(<<"warehouse">>, n)].exists

\* C14: create_warehouse returns a dict whenever it returns: every warehouse
\* state file holds a dict as its api_response.
C14_ReturnsDict ==
  \A n \in SNames :
    fs.state[FileName(<<"warehouse">>, n)].exists =>
      fs.state[FileName(<<"warehouse">>, n)].api_response.shape = "dict"

\* a 2xx answer whose body is a JSON array is returned, and written, as a list
C14_ReturnsList ==
  /\ script = "provision_lakehouses_warehouses"
  /\ Is2xx(loc.whCode)
  /\ \E n \in SNames :
       fs.state[FileName(<<"warehouse">>, n)].api_response = Value("list", "array", 0)

\* the statuses of a notebook entry that record a failure or a timeout
FailedStatuses == {"upload_failed", "exception_during_upload", "accepted_no_completion"}

\* the run is provision_workspace, on an artifact a run without success left
AfterFailedWorkspace ==
  script = "provision_workspace" /\ fs0.artifact.exists /\ ~fs0.artifact.created

\* C15: A resource whose previous run ended Failed or TimedOut is not
\* attempted again unless the caller forces it: without --force
\* provision_workspace makes no creation call after a run without success,
\* with --force it goes on to provisioning, and a notebook recorded as failed
\* gets no creation call in the next run.
C15_NoRetryUnlessForced ==
  /\ AfterFailedWorkspace /\ ~args.force => calls = <<>>
  /\ AfterFailedWorkspace /\ args.force /\ ~args.dryRun /\ args.creds /\ pc = "done" =>
       CallsTo("token") # <<>>
  /\ script = "provision_notebooks" =>
       \A i \in DOMAIN fs0.notebooksCreated.results :
         LET e == fs0.notebooksCreated.results[i] IN
         e.status \in FailedStatuses => ~Created("createNotebook", e.workspace_id, e.displayName)

\* the entry of the run before says upload_failed and this run, which has no
\* flag that forces anything, has posted the notebook again
C15_FailedNotebookReattempted ==
  /\ script = "provision_notebooks"
  /\ \E i \in DOMAIN fs0.notebooksCreated.results :
       LET e == fs0.notebooksCreated.results[i] IN
       /\ e.status = "upload_failed"
       /\ Created("createNotebook", e.workspace_id, e.displayName)

\* C16: With --dry-run, provision_workspace makes no request whatever
\* credentials are set; unless it returns at once on an artifact that has a
\* workspace_id (no --force), where it writes nothing, it writes the artifact
\* and both id files with the synthetic id and created false.
C16_DryRun ==
  script = "provision_workspace" /\ args.dryRun =>
    /\ calls = <<>>
    /\ pc = "done" /\ exitCode = 0
    /\ IF ~args.force /\ ExistingId(fs0) # None
         THEN fs = fs0
         ELSE /\ fs.artifact = Fallback("dry-run synthetic id")
              /\ fs.wsTxt = SynthId /\ fs.stateWsTxt = SynthId

\* a dry run with credentials set and --force, over the artifact of a created
\* workspace, has replaced it by the synthetic one without a request
C16_DryRunWithCredentials ==
  /\ script = "provision_workspace" /\ args.dryRun /\ args.creds /\ args.force
  /\ fs0.artifact.created /\ fs0.artifact.workspace_id = RealWsId
  /\ fs.artifact = Fallback("dry-run synthetic id")
  /\ calls = <<>>

\* C16 as stated: whenever --dry-run is given, the run makes no request and
\* the artifact holds a synthetic id with created false.
C16_DryRunAlwaysSynthetic ==
  script = "provision_workspace" /\ args.dryRun /\ pc = "done" =>
    /\ calls = <<>>
    /\ fs.artifact.exists
    /\ fs.artifact.workspace_id = SynthId
    /\ ~fs.artifact.created

\* C17: Writes are atomic. Whatever kills the process, the artifact a later
\* reader finds is the complete file of before or the complete new one.
C17_AtomicWrites ==
  fs.artifact # PartialArtifact

\* the complete artifact of a created workspace was there; the next run, with
\* --force, was killed in write_json and left a partial file in its place
C17_PartialOverComplete ==
  /\ script = "provision_workspace" /\ pc = "done" /\ exitCode = 137
  /\ fs0.artifact.created /\ fs0.artifact.workspace_id = RealWsId
  /\ fs.artifact = PartialArtifact

\* C18: generate_synthetic_data exits non-zero if and only if the RunNotebook
\* call failed (no 2xx answer) or the polled job instance reported failed;
\* in every other case it exits 0.
C18_ExitCodeIff ==
  script = "generate_synthetic_data" /\ pc = "done" /\ CallsTo("runNotebook") # <<>> =>
    (exitCode # 0 <=> (~Is2xx(loc.runCode) \/ (loc.polled /\ JobFailed(loc.lastHint))))

\* RunNotebook was answered 202, the poll read a body whose state is Failed
\* and stopped on it, and the run exited 0
C18_FailedStateExitsZero ==
  /\ script = "generate_synthetic_data" /\ pc = "done" /\ exitCode = 0
  /\ loc.runCode = 202 /\ loc.polled
  /\ loc.instance.state = "Failed" /\ JobFailed(loc.lastHint)
  /\ fs.runResult.instance = loc.instance

\* the status values that say the operation succeeded, in lower case
SuccessStatuses == {"succeeded", "completed", "completedwithwarnings"}

\* the latest poll response carried this status field
LastStatus == IF loc.lastHint # None /\ loc.instance.status = loc.lastHint THEN loc.lastHint ELSE None

C20_NonTerminalContinues ==
  script = "generate_synthetic_data" /\ loc.polled /\ pc = "gsd_activities" =>
    \/ JobFailed(loc.lastHint)
    \/ loc.lastHint # None /\ Lower(loc.lastHint) \in SuccessStatuses \cup {"finished"}
    \/ loc.attempt = JOB_POLLS

\* the first tick answered 200 with a JSON object that has no status: the
\* poll is left as a terminal success with 59 ticks to spare
C20_NoStatusEndsPoll ==
  /\ script = "generate_synthetic_data" /\ loc.polled
  /\ pc = "gsd_activities"
  /\ loc.attempt = 1 /\ loc.lastCode = 200
  /\ loc.instance.json /\ loc.instance.status = None /\ loc.instance.state = None
  /\ loc.lastHint = None

\* C21: Polling by listing. The tick whose listing, answered 200, holds an
\* entry of the display name is the last one: the loop is left, no further
\* listing is requested, and the id that is kept is the id of that entry.
C21_ListingMatchEndsPoll ==
  /\ script = "provision_lakehouses_warehouse" /\ loc.lastListing = [code |-> 200, body |-> "match"] =>
       /\ pc = "done" /\ exitCode = 0
       /\ loc.warehouse_id = IdOf(warehouse_name)
       /\ fs.warehouseId = IdOf(warehouse_name)
  /\ script = "provision_notebooks" /\ loc.lastListing = [code |-> 200, body |-> "match"] =>
       /\ pc # "pn_poll"
       /\ loc.i > loc.polled
       /\ loc.results[loc.polled].displayName = notebooks[loc.polled].displayName
       /\ loc.results[loc.polled].status = "created_async"
       /\ loc.results[loc.polled].notebook_id = NotebookIdOf(notebooks[loc.polled].displayName)

\* the second listing of the warehouses held the display name: the poll is
\* over with ten ticks to spare and the id of the entry is in the state file
C21_MatchAtSecondTick ==
  /\ script = "provision_lakehouses_warehouse" /\ pc = "done"
  /\ loc.attempt = 2
  /\ loc.lastListing = [code |-> 200, body |-> "match"]
  /\ fs.warehouseId = IdOf(warehouse_name)
  /\ fs0.warehouseId = NoFile

C23_PollErrorTransient ==
  /\ script = "provision_notebooks" /\ loc.polled > 0 /\ loc.lastListing = Raise
       /\ loc.attempt < POLL_ATTEMPTS => pc = "pn_poll"
  /\ script = "provision_lakehouses_warehouse" /\ loc.lastListing = Raise
       /\ loc.attempt < max_attempts => pc = "lw1_poll"
  /\ script = "generate_synthetic_data" /\ loc.runCode = 202 /\ loc.location
       /\ loc.lastCode = 0 /\ 0 < loc.attempt /\ loc.attempt < JOB_POLLS => pc = "gsd_poll"

\* the first listing request of the warehouse poll raised and the run is over
\* with exit status 1, eleven ticks unused
C23_PollErrorEndsRun ==
  /\ script = "provision_lakehouses_warehouse" /\ pc = "done" /\ exitCode = 1
  /\ loc.lastListing = Raise
  /\ loc.attempt = 1
  /\ fs.warehouseId = fs0.warehouseId

\* C24: The GetDefinition loop is bounded by an attempt cap and a wall-clock
\* cap: for every value of MAX_GETDEF_WAIT_SECONDS and every sequence of
\* responses, a run that is in the loop leaves it.
C24_GetDefTerminates ==
  (pc = "gsd_getdef") ~> (pc # "gsd_getdef")

\* MAX_GETDEF_WAIT_SECONDS is 0 or negative: the loop has made more passes
\* than are counted, the latest one answered Running, and it is still going
C24_UnboundedLoop ==
  /\ script = "generate_synthetic_data" /\ pc = "gsd_getdef"
  /\ args.max_wait = 0
  /\ loc.attempt = MaxGetDefAttempts
  /\ loc.getdef = "running"

\* the number of the run's calls to an API for a resource of that name
Attempts(api, name) == Len(SelectSeq(calls, LAMBDA c : c.api = api /\ c.name = name))

\* C25: A 4xx response, 409 included, is never retried. A role assignment
\* answered 4xx is the last one, whatever is left of max_retries, and its
\* outcome is failed-non-retryable; the workspace create and every notebook
\* upload are posted at most once, and a notebook answered 4xx is recorded
\* as upload_failed.
C25_ClientErrorNotRetried ==
  /\ script = "provision_workspace" =>
       /\ Attempts("createWorkspace", "workspace") <= 1
       /\ 400 <= loc.assignCode /\ loc.assignCode < 500 =>
            /\ pc = "done"
            /\ Attempts("assignRole", "Admin") = loc.attempts
            /\ loc.assignStatus = "failed-non-retryable"
            /\ fs.artifact.admin = AssignMeta("failed-non-retryable", loc.attempts, loc.assignCode)
  /\ script = "provision_notebooks" =>
       /\ \A n \in NotebookNames : Attempts("createNotebook", n) <= 1
       /\ \A i \in DOMAIN loc.results :
            400 <= loc.results[i].response_code /\ loc.results[i].response_code < 500 =>
              loc.results[i].status = "upload_failed"

\* the first role assignment was answered 409 with max_retries 2: the run is
\* over after that one attempt
C25_ConflictEndsRetries ==
  /\ script = "provision_workspace" /\ pc = "done"
  /\ args.maxRetries = 2
  /\ loc.assignCode = 409 /\ loc.attempts = 1
  /\ Attempts("assignRole", "Admin") = 1
  /\ fs.artifact.admin.status = "failed-non-retryable"

\* C26: A 401 answer to an authenticated call makes the run fetch a fresh
\* token and repeat the call once: a run that reports a 401 as the outcome of
\* a call has requested the token twice and made that call twice.
C26_UnauthorizedRetriedOnce ==
  /\ script = "provision_workspace" /\ pc = "done" =>
       /\ loc.createCode = 401 =>
            Len(CallsTo("token")) = 2 /\ Attempts("createWorkspace", "workspace") = 2
       /\ fs.artifact.admin.status_code = 401 /\ loc.assignCode = 401 =>
            Len(CallsTo("token")) = 2 /\ Attempts("assignRole", "Admin") >= 2
  /\ script = "provision_notebooks" /\ pc = "done" =>
       \A i \in DOMAIN loc.results :
         loc.results[i].response_code = 401 =>
           Len(CallsTo("token")) = 2 /\ Attempts("createNotebook", loc.results[i].displayName) = 2

\* the only role assignment of the run was answered 401 and is recorded as
\* failed-non-retryable; the token was requested once
C26_UnauthorizedIsTerminal ==
  /\ script = "provision_workspace" /\ pc = "done"
  /\ args.maxRetries = 2
  /\ fs.artifact.admin = AssignMeta("failed-non-retryable", 1, 401)
  /\ Attempts("assignRole", "Admin") = 1
  /\ Len(CallsTo("token")) = 1

\* C27: Every 2xx creation response other than 202 that carries an id is a
\* success: the resource counts as created and its id is the id of the
\* response, for workspaces, lakehouses and warehouses alike.
C27_Any2xxIsSuccess ==
  /\ script = "provision_workspace" /\ Is2xx(loc.createCode) /\ loc.createCode # 202 =>
       loc.payload.created /\ loc.workspace_id = loc.payload.workspace_id
  /\ script = "provision_lakehouses_warehouse" /\ Is2xx(loc.response.code)
       /\ loc.response.code # 202 /\ loc.response.body = "id" =>
         LET name == calls[Len(calls)].name IN
         /\ ~(pc = "done" /\ exitCode = 1)
         /\ name = warehouse_name => loc.warehouse_id = IdOf(name)
         /\ name # warehouse_name =>
              \E j \in DOMAIN loc.lakehouse_ids : loc.lakehouse_ids[j] = IdOf(name)

\* the POST of BenchmarkLakehouse was answered 200 with an id and the run
\* exited 1 without a lakehouse id
C27_OkLakehouseFails ==
  /\ script = "provision_lakehouses_warehouse" /\ pc = "done" /\ exitCode = 1
  /\ loc.response = [code |-> 200, body |-> "id"]
  /\ calls[Len(calls)].name = "BenchmarkLakehouse"
  /\ loc.lakehouse_ids = <<>>
  /\ ~fs.lakehouseIds.exists

\* C28: A record carries an id only on success, and the id is the one the
\* remote assigned: an artifact with created true holds the id of the API
\* response, an artifact with created false presents no workspace id (in the
\* JSON or in the id files), and a notebook entry has a notebook_id only with
\* status created or created_async.
C28_IdOnlyOnSuccess ==
  /\ fs.artifact.exists /\ fs.artifact.created => fs.artifact.workspace_id = RealWsId
  /\ script = "provision_workspace" /\ fs.artifact.exists /\ ~fs.artifact.created =>
       fs.artifact.workspace_id = None /\ fs.wsTxt \in {None, NoFile}
  /\ script = "provision_notebooks" =>
       \A i \in DOMAIN loc.results :
         loc.results[i].notebook_id # None =>
           loc.results[i].status \in {"created", "created_async"}

\* the create was answered 2xx with a body that has no id: the artifact says
\* created true and carries the local synthetic id, as do the id files
C28_SyntheticIdCreated ==
  /\ script = "provision_workspace" /\ pc = "done"
  /\ Is2xx(loc.createCode)
  /\ fs.artifact.created
  /\ fs.artifact.note = "raw_response"
  /\ fs.artifact.workspace_id = SynthId
  /\ fs.stateWsTxt = SynthId

\* C29: Distinct resources never share a record. After a run that went
\* through, the state file of every workspace's lakehouse and warehouse
\* holds the record of that workspace: none was overwritten by the record
\* of another workspace's resource.
C29_OneRecordPerResource ==
  script = "provision_lakehouses_warehouses" /\ pc = "done" /\ exitCode = 0 =>
    \A k \in DOMAIN fs.summary.workspaces :
      LET ws == fs.summary.workspaces[k] IN
      /\ fs.state[FileName(<<"lakehouse">>, ws.sanitized_name)].workspace_id = ws.workspace_id
      /\ fs.state[FileName(<<"warehouse">>, ws.sanitized_name)].workspace_id = ws.workspace_id

\* two workspaces with different ids and one sanitized name: both lakehouses
\* were posted, and the one state file holds the record of the second only
C29_RecordOverwritten ==
  /\ script = "provision_lakehouses_warehouses" /\ pc = "done" /\ exitCode = 0
  /\ fs.summary.workspaces = <<WsEntry("ws-1", <<"a">>), WsEntry("ws-2", <<"a">>)>>
  /\ Created("createLakehouse", "ws-1", "BenchmarkLakehouse")
  /\ Created("createLakehouse", "ws-2", "BenchmarkLakehouse")
  /\ fs.state[FileName(<<"lakehouse">>, <<"a">>)].workspace_id = "ws-2"

\* the entries so far are those of the first n pairs of the manifest, one
\* each and in order, each with a status
OneEntryEach(results, n) ==
  /\ Len(results) = n
  /\ \A k \in 1..n :
       /\ results[k].displayName = notebooks[k].displayName
       /\ results[k].workspace = notebooks[k].workspace
       /\ results[k].status # None

\* C30: Every (notebook, workspace) pair gets exactly one results entry,
\* appended once, with a status, and the entry is not changed afterwards:
\* once the workspaces are listed the results are the entries of the pairs
\* before the current one, a step only appends to them, and a run that ends
\* with exit status 0 has written one entry for every pair.
C30_OneEntryPerPair ==
  [][ script' = "provision_notebooks" =>
        /\ pc' \in {"pn_upload", "pn_poll"} => OneEntryEach(loc'.results, loc'.i - 1)
        /\ pc' = "done" /\ exitCode' = 0 =>
             /\ OneEntryEach(loc'.results, Len(notebooks))
             /\ fs'.notebooksCreated = [exists |-> TRUE, results |-> loc'.results]
        /\ script = "provision_notebooks" /\ runs' = runs =>
             /\ Len(loc'.results) >= Len(loc.results)
             /\ SubSeq(loc'.results, 1, Len(loc.results)) = loc.results ]_vars

\* a run in which the first upload raised and the second was accepted and
\* never completed has written one entry for each
C30_EntriesOnErrorPaths ==
  /\ script = "provision_notebooks" /\ pc = "done" /\ exitCode = 0
  /\ Len(fs.notebooksCreated.results) = Len(notebooks)
  /\ fs.notebooksCreated.results[1].status = "exception_during_upload"
  /\ fs.notebooksCreated.results[2].status = "accepted_no_completion"

\* the positions of main from which a resource creator is called
CreatorCalls ==
  [pw_create |-> "createWorkspace", plw_metrics |-> "createLakehouse",
   plw_lakehouse |-> "createLakehouse", plw_warehouse |-> "createWarehouse"]

\* a step of main that calls a creator: one request of the creator's api is
\* added to the requests made, no poll follows, and a creator that ends the
\* process has left the files as they were
CreatorStep ==
  pc \in DOMAIN CreatorCalls =>
    /\ Len(calls') = Len(calls) + 1
    /\ SubSeq(calls', 1, Len(calls)) = calls
    /\ calls'[Len(calls')].api = CreatorCalls[pc]
    /\ pc' # "plw_poll"
    /\ script = "provision_lakehouses_warehouses" => ~loc'.whPolled
    /\ script = "provision_lakehouses_warehouses" /\ exitCode' = 1 => fs' = fs

TerminalStatuses == {"succeeded", "failed-non-retryable", "failed"}

\* the step in which assign_admin_role returns to main
AssignReturns ==
  script = "provision_workspace" /\ pc = "pw_assign" /\ pc' = "done" =>
    /\ loc'.assignStatus \in TerminalStatuses
    /\ loc'.attempts = Len(CallsTo("assignRole")')
    /\ loc'.attempts <= args.maxRetries
    /\ fs'.artifact.admin.status = loc'.assignStatus
    /\ fs'.artifact.admin.attempts = loc'.attempts

\* C32: assign_admin_role always returns a terminal status (succeeded,
\* failed-non-retryable or failed, never not-attempted, retrying or
\* retrying-exception), whatever max_retries >= 0 and whatever the responses
\* and exceptions; the attempts it returns are the POSTs it issued and are
\* not more than max_retries.
C32_TerminalStatus == [][AssignReturns]_vars

\* max_retries is 0: no POST is issued and the function returns failed with
\* 0 attempts, which the artifact records
C32_NoRetriesAllowed ==
  /\ script = "provision_workspace" /\ pc = "done"
  /\ args.adminSet /\ args.maxRetries = 0
  /\ Len(CallsTo("createWorkspace")) = 1
  /\ CallsTo("assignRole") = <<>>
  /\ fs.artifact.admin.status = "failed"
  /\ fs.artifact.admin.attempts = 0

\* a pass of the retry loop of assign_admin_role made after the remote has
\* answered an earlier pass with a 2xx status
NoPostAfterSuccess ==
  script = "provision_workspace" /\ pc = "pw_assign" /\ Is2xx(loc.assignCode) =>
    Len(CallsTo("assignRole")') = Len(CallsTo("assignRole"))

\* C33: Once the remote has answered the role assignment with any 2xx
\* response, assign_admin_role issues no further role-assignment POST.
C33_SuccessNotResent == [][NoPostAfterSuccess]_vars

\* the first POST of the assignment was answered 200: the function records
\* the status retrying and its loop goes on to a second POST
C33_OkAnswerRetried ==
  /\ script = "provision_workspace" /\ pc = "pw_assign"
  /\ loc.attempts = 1 /\ Len(CallsTo("assignRole")) = 1
  /\ loc.assignCode = 200 /\ loc.assignStatus = "retrying"
  /\ AssignLoopGuard(loc.attempts, args.maxRetries)

\* C34: The admin role assignment is only ever requested for a workspace id
\* that the remote returned in the create response, never for a synthetic
\* local-... id.
C34_AssignOnlyRealId ==
  script = "provision_workspace" =>
    \A i \in DOMAIN calls :
      calls[i].api = "assignRole" => calls[i].ws = RealWsId /\ calls[i].ws # SynthId

\* the create was answered 201 with a body that holds no id: main took the
\* synthetic id as workspace_id and posted the assignment for it
C34_AssignForSyntheticId ==
  /\ script = "provision_workspace"
  /\ loc.createCode = 201 /\ loc.workspace_id = SynthId
  /\ \E i \in DOMAIN calls : calls[i] = Call("assignRole", SynthId, "Admin", loc.token)

\* main returned at line 221: an artifact with an id was there and --force
\* was not given
SkippedExisting == ~args.force /\ fs0.artifact.exists /\ fs0.artifact.workspace_id # None

C36_ExitZeroAllIds ==
  script = "provision_lakehouses_warehouse" /\ pc = "done" /\ exitCode = 0 =>
    /\ fs.warehouseId = IdOf(warehouse_name)
    /\ fs.lakehouseIds.exists
    /\ Len(fs.lakehouseIds.ids) = Len(lakehouse_names)
    /\ \A i \in DOMAIN lakehouse_names : fs.lakehouseIds.ids[i] = IdOf(lakehouse_names[i])

\* the first lakehouse create got 409, the second 201 and the warehouse was
\* created: the run exits 0 with a single id in lakehouse_ids.txt
C36_ExitZeroIdMissing ==
  /\ script = "provision_lakehouses_warehouse" /\ pc = "done" /\ exitCode = 0
  /\ lakehouse_names[1] \in loc.conflicts
  /\ fs.warehouseId = IdOf(warehouse_name)
  /\ fs.lakehouseIds = [exists |-> TRUE, ids |-> <<IdOf(lakehouse_names[2])>>]

\* the state file of that kind and name records a creation in that workspace
\* that returned a value
StateWritten(resource_kind, entry) ==
  LET rec == fs.state[FileName(resource_kind, entry.sanitized_name)] IN
  /\ rec.exists
  /\ rec.workspace_id = entry.workspace_id
  /\ rec.resource_type = resource_kind
  /\ rec.api_response # NoValue

\* the MetricsLakehouse creation of this run was requested and recorded
MetricsDone ==
  /\ Len(calls) >= 2
  /\ calls[2] = Call("createLakehouse", fs.summary.controller.workspace_id,
                     "MetricsLakehouse", loc.token)
  /\ StateWritten(<<"lakehouse", "metrics">>, fs.summary.controller)

\* C37: In provision_lakehouses_warehouses main, a BenchmarkLakehouse or
\* BenchmarkWarehouse creation is requested only after the MetricsLakehouse
\* creation of the controller returned 2xx and its state file was written;
\* within a workspace the warehouse creation is requested only after the
\* lakehouse creation of that workspace returned 2xx and its state file was
\* written.
C37_CreationOrder ==
  script = "provision_lakehouses_warehouses" =>
    /\ pc \in {"plw_lakehouse", "plw_warehouse"} => MetricsDone
    /\ pc = "plw_warehouse" =>
         /\ calls[Len(calls)] = Call("createLakehouse", fs.summary.workspaces[loc.k].workspace_id,
                                     "BenchmarkLakehouse", loc.token)
         /\ StateWritten(<<"lakehouse">>, fs.summary.workspaces[loc.k])
    /\ \A i \in DOMAIN calls :
         /\ calls[i].name \in {"BenchmarkLakehouse", "BenchmarkWarehouse"} =>
              /\ i > 2
              /\ calls[2].name = "MetricsLakehouse"
              /\ fs.state[FileName(<<"lakehouse", "metrics">>,
                                   fs.summary.controller.sanitized_name)].exists
         /\ calls[i].api = "createWarehouse" =>
              calls[i - 1] = Call("createLakehouse", calls[i].ws, "BenchmarkLakehouse", loc.token)

\* the second workspace's warehouse is about to be requested: the metrics
\* lakehouse, the first workspace's pair and the second lakehouse were
\* requested in that order and recorded
C37_SecondWarehouseDue ==
  /\ script = "provision_lakehouses_warehouses" /\ pc = "plw_warehouse"
  /\ loc.k = 2
  /\ Len(calls) = 5
  /\ calls[3].api = "createLakehouse" /\ calls[4].api = "createWarehouse"
  /\ calls[5].api = "createLakehouse"
  /\ fs.summary.workspaces[1].sanitized_name # fs.summary.workspaces[2].sanitized_name
  /\ StateWritten(<<"lakehouse">>, fs.summary.workspaces[1])
  /\ StateWritten(<<"lakehouse">>, fs.summary.workspaces[2])

====
